---- MODULE Spec2Model ----
(***************************************************************************)
(* Model of the Event aggregate of hubot-plan (lib/event.js): proposals,   *)
(* invitees, responses, the finalized index, the earliest/latest caches    *)
(* and the leading marker.                                                 *)
(*                                                                         *)
(* Proposal indices are the 0-based indices of the source; the slot of     *)
(* index i is proposals[i + 1].  A slot that `delete` emptied is Undefined.*)
(* earliest/latest hold the index of the Proposal object they reference.   *)
(* An operation records what it was called with and how it ended in `last`.*)
(***************************************************************************)
EXTENDS Integers, Sequences, FiniteSets

VARIABLES proposals, invitees, responses, finalized, earliest, latest, last

vars == <<proposals, invitees, responses, finalized, earliest, latest, last>>

\* ---- bounds of the model ----
\* Spec: the whole aggregate
MaxProposals == 2
MaxTs == 2
\* SpecDates: the proposal lifecycle alone, with more proposals and dates
MaxDates == 4
MaxDateTs == 3

Users == {"frey", "fenris", "reostra"}
Timestamps == 1..MaxTs
\* index arguments: allocated ones and one that is never allocated
Indices == 0..MaxProposals
DateTimestamps == 1..MaxDateTs
DateIndices == 0..MaxDates

\* this.finalized = null, this.earliest = null, this.latest = null
null == -1

\* an array hole: this.proposals[index] === undefined
Undefined == [live |-> FALSE, ts |-> 0, accepted |-> {}, leading |-> FALSE]

\* new Proposal(ts)
NewProposal(ts) == [live |-> TRUE, ts |-> ts, accepted |-> {}, leading |-> FALSE]

\* this.proposals[index]
Slot(ps, index) == IF index >= 0 /\ index < Len(ps) THEN ps[index + 1] ELSE Undefined

IsLive(index) == Slot(proposals, index).live

\* Object.keys(this.proposals)
proposalKeys == {i \in 0..(Len(proposals) - 1) : IsLive(i)}

isFinalized == finalized # null

\* Set.prototype.add / delete on an insertion-ordered Set
InSeq(s, x) == \E k \in 1..Len(s) : s[k] = x
SetAdd(s, x) == IF InSeq(s, x) THEN s ELSE Append(s, x)
SetDelete(s, x) == SelectSeq(s, LAMBDA y : y # x)
getInvitees == invitees
InviteeSet == {invitees[k] : k \in 1..Len(invitees)}

\* the outcome of the last call
Outcome(op, uid, index, result) ==
  [op |-> op, uid |-> uid, index |-> index, result |-> result]

NoUser == "-"

\* the errors of ./errors: buildInvalidProposalError, buildFinalizedEventError,
\* buildUnfinalizedEventError; "TypeError" is a method call on undefined

\* proposal(index): the error it throws, or "ok"
proposal(index) == IF IsLive(index) THEN "ok" ELSE "InvalidProposalError"

\* finalProposal(): the error it throws, or "ok" (the proposal is Slot(proposals, finalized))
finalProposal ==
  IF finalized = null THEN "UnfinalizedEventError" ELSE proposal(finalized)

\* ---- earliest / latest ----

\* the two reduce() calls of unpropose: scan the slots in index order from k,
\* skipping holes and the removed index; before = TRUE scans for the minimum
RECURSIVE Rescan(_, _, _, _, _)
Rescan(ps, index, k, acc, before) ==
  IF k >= Len(ps) THEN acc
  ELSE IF ~Slot(ps, k).live \/ k = index THEN Rescan(ps, index, k + 1, acc, before)
  ELSE IF acc = null THEN Rescan(ps, index, k + 1, k, before)
  ELSE IF before /\ Slot(ps, k).ts < Slot(ps, acc).ts THEN Rescan(ps, index, k + 1, k, before)
  ELSE IF ~before /\ Slot(ps, k).ts > Slot(ps, acc).ts THEN Rescan(ps, index, k + 1, k, before)
  ELSE Rescan(ps, index, k + 1, acc, before)

\* the date of a cached reference
DateOf(ref) == Slot(proposals, ref).ts

earliestComparisonDate ==
  IF isFinalized THEN DateOf(finalized)
  ELSE IF earliest # null THEN DateOf(earliest)
  ELSE null

latestComparisonDate ==
  IF isFinalized THEN DateOf(finalized)
  ELSE IF latest # null THEN DateOf(latest)
  ELSE null

\* ---- filtering and ordering ----

\* the filter records of the listing: a clause that is absent is FALSE,
\* null or NoUser
FilterDates == 0..(MaxTs + 1)
Filters ==
  [finalized : BOOLEAN, unfinalized : BOOLEAN,
   before : {null} \cup FilterDates, after : {null} \cup FilterDates,
   invited : {NoUser} \cup Users]

\* a matches whose before clause reads the latest comparison date
matches_latest(filter) ==
  LET l == latestComparisonDate
      m0 == TRUE
      m1 == IF filter.finalized /\ ~isFinalized THEN FALSE ELSE m0
      m2 == IF filter.unfinalized /\ isFinalized THEN FALSE ELSE m1
      m3 == IF filter.before # null /\ l # null /\ l > filter.before THEN FALSE ELSE m2
      m4 == IF filter.after # null /\ l # null /\ l < filter.after THEN FALSE ELSE m3
      m5 == IF filter.invited # NoUser /\ ~InSeq(invitees, filter.invited)
            THEN FALSE ELSE m4
  IN m5

\* matches(filter): m starts true and each failing clause sets it false
matches(filter) ==
  LET e == earliestComparisonDate
      l == latestComparisonDate
      m0 == TRUE
      m1 == IF filter.finalized /\ ~isFinalized THEN FALSE ELSE m0
      m2 == IF filter.unfinalized /\ isFinalized THEN FALSE ELSE m1
      m3 == IF filter.before # null /\ e # null /\ e > filter.before THEN FALSE ELSE m2
      m4 == IF filter.after # null /\ l # null /\ l < filter.after THEN FALSE ELSE m3
      m5 == IF filter.invited # NoUser /\ ~InSeq(invitees, filter.invited)
            THEN FALSE ELSE m4
  IN m5

\* a comparison that sorts an absent date last
CompareDates_absentLast(a, b) ==
  IF a = b THEN 0
  ELSE IF a = null THEN 1
  ELSE IF b = null THEN -1
  ELSE IF a = b THEN 0
  ELSE IF a < b THEN -1 ELSE 1

\* the body of compareTo on a = this.earliestComparisonDate() and
\* b = other.earliestComparisonDate(); a === b holds for two nulls and for
\* one moment object, for which isSame gives 0 as well
CompareDates(a, b) ==
  IF a = b THEN 0
  ELSE IF a = null THEN -1
  ELSE IF b = null THEN 1
  ELSE IF a = b THEN 0
  ELSE IF a < b THEN -1 ELSE 1

\* compareTo(other), other given by its earliestComparisonDate()
compareTo(otherDate) == CompareDates(earliestComparisonDate, otherDate)

\* ---- leader recomputation ----

yesCount(p) == Cardinality(p.accepted)

\* the for..of loops of remarkLeader visit holes as undefined
HasHole(ps) == \E k \in 1..Len(ps) : ~ps[k].live

RECURSIVE LeadingCount(_, _, _)
LeadingCount(ps, k, leadingCount) ==
  IF k > Len(ps) THEN leadingCount
  ELSE IF yesCount(ps[k]) > leadingCount THEN LeadingCount(ps, k + 1, yesCount(ps[k]))
  ELSE LeadingCount(ps, k + 1, leadingCount)

remarkLeader(ps) ==
  LET leadingCount == LeadingCount(ps, 1, 2)
  IN [k \in 1..Len(ps) |-> [ps[k] EXCEPT !.leading = (yesCount(ps[k]) = leadingCount)]]

\* ---- operations ----

Init ==
  /\ proposals = <<>>
  /\ invitees = <<>>
  /\ responses = {}
  /\ finalized = null
  /\ earliest = null
  /\ latest = null
  /\ last = Outcome("new", NoUser, null, "ok")

\* a proposeDate without the isFinalized() check
proposeDate_unchecked(ts) ==
  /\ proposals' = Append(proposals, NewProposal(ts))
  /\ earliest' = IF earliest = null \/ ts < DateOf(earliest)
                 THEN Len(proposals) ELSE earliest
  /\ latest' = IF latest = null \/ ts > DateOf(latest)
               THEN Len(proposals) ELSE latest
  /\ last' = Outcome("proposeDate", NoUser, Len(proposals') - 1, "ok")
  /\ UNCHANGED <<invitees, responses, finalized>>

proposeDate(ts) ==
  IF isFinalized
  THEN /\ last' = Outcome("proposeDate", NoUser, null, "FinalizedEventError")
       /\ UNCHANGED <<proposals, invitees, responses, finalized, earliest, latest>>
  ELSE /\ proposals' = Append(proposals, NewProposal(ts))
       /\ earliest' = IF earliest = null \/ ts < DateOf(earliest)
                      THEN Len(proposals) ELSE earliest
       /\ latest' = IF latest = null \/ ts > DateOf(latest)
                    THEN Len(proposals) ELSE latest
       /\ last' = Outcome("proposeDate", NoUser, Len(proposals') - 1, "ok")
       /\ UNCHANGED <<invitees, responses, finalized>>

\* a removal that closes the gap: this.proposals.splice(index, 1)
DeleteSlot_splice(ps, index) ==
  IF index >= 0 /\ index < Len(ps)
  THEN SubSeq(ps, 1, index) \o SubSeq(ps, index + 2, Len(ps))
  ELSE ps

\* a removal by assignment, this.proposals[index] = undefined, which grows
\* the array when index is beyond its end
DeleteSlot_assign(ps, index) ==
  IF index >= 0 /\ index < Len(ps) THEN [ps EXCEPT ![index + 1] = Undefined]
  ELSE ps \o [k \in 1..(index + 1 - Len(ps)) |-> Undefined]

\* delete this.proposals[index]
DeleteSlot(ps, index) ==
  IF index >= 0 /\ index < Len(ps) THEN [ps EXCEPT ![index + 1] = Undefined] ELSE ps

\* a removal that drops the caches instead of rescanning
unpropose_noRescan(index) ==
  /\ earliest' = IF earliest = index /\ IsLive(index) THEN null ELSE earliest
  /\ latest' = IF latest = index /\ IsLive(index) THEN null ELSE latest
  /\ proposals' = DeleteSlot(proposals, index)
  /\ finalized' = IF finalized = index THEN null ELSE finalized
  /\ last' = Outcome("unpropose", NoUser, index, "ok")
  /\ UNCHANGED <<invitees, responses>>

\* a removal that leaves finalized alone
unpropose_keepFinalized(index) ==
  /\ earliest' = IF earliest = index /\ IsLive(index)
                 THEN Rescan(proposals, index, 0, null, TRUE) ELSE earliest
  /\ latest' = IF latest = index /\ IsLive(index)
               THEN Rescan(proposals, index, 0, null, FALSE) ELSE latest
  /\ proposals' = DeleteSlot(proposals, index)
  /\ last' = Outcome("unpropose", NoUser, index, "ok")
  /\ UNCHANGED <<invitees, responses, finalized>>

unpropose(index) ==
  /\ earliest' = IF earliest = index /\ IsLive(index)
                 THEN Rescan(proposals, index, 0, null, TRUE) ELSE earliest
  /\ latest' = IF latest = index /\ IsLive(index)
               THEN Rescan(proposals, index, 0, null, FALSE) ELSE latest
  /\ proposals' = DeleteSlot(proposals, index)
  /\ finalized' = IF finalized = index THEN null ELSE finalized
  /\ last' = Outcome("unpropose", NoUser, index, "ok")
  /\ UNCHANGED <<invitees, responses>>

\* an invitation that counts as a response
invite_responds(uid) ==
  /\ invitees' = SetAdd(invitees, uid)
  /\ responses' = responses \cup {uid}
  /\ last' = Outcome("invite", uid, null, "ok")
  /\ UNCHANGED <<proposals, finalized, earliest, latest>>

invite(uid) ==
  /\ invitees' = SetAdd(invitees, uid)
  /\ last' = Outcome("invite", uid, null, "ok")
  /\ UNCHANGED <<proposals, responses, finalized, earliest, latest>>

\* an uninvite that also forgets the user's response
uninvite_forgets(uid) ==
  /\ invitees' = SetDelete(invitees, uid)
  /\ responses' = responses \ {uid}
  /\ last' = Outcome("uninvite", uid, null, "ok")
  /\ UNCHANGED <<proposals, finalized, earliest, latest>>

uninvite(uid) ==
  /\ invitees' = SetDelete(invitees, uid)
  /\ last' = Outcome("uninvite", uid, null, "ok")
  /\ UNCHANGED <<proposals, responses, finalized, earliest, latest>>

\* Proposal.yes / Proposal.no on the slot of a live index
Yes(ps, index, uid) == [ps EXCEPT ![index + 1].accepted = @ \cup {uid}]
No(ps, index, uid) == [ps EXCEPT ![index + 1].accepted = @ \ {uid}]

acceptProposal(uid, index) ==
  /\ invitees' = SetAdd(invitees, uid)
  /\ responses' = responses \cup {uid}
  /\ IF ~IsLive(index)
     THEN /\ last' = Outcome("acceptProposal", uid, index, "InvalidProposalError")
          /\ UNCHANGED proposals
     ELSE IF HasHole(proposals)
     THEN /\ proposals' = Yes(proposals, index, uid)
          /\ last' = Outcome("acceptProposal", uid, index, "TypeError")
     ELSE /\ proposals' = remarkLeader(Yes(proposals, index, uid))
          /\ last' = Outcome("acceptProposal", uid, index, "ok")
  /\ UNCHANGED <<finalized, earliest, latest>>

\* a rejection that enrols the user as acceptProposal does
rejectProposal_invites(uid, index) ==
  /\ invitees' = SetAdd(invitees, uid)
  /\ responses' = responses \cup {uid}
  /\ IF ~IsLive(index)
     THEN /\ last' = Outcome("rejectProposal", uid, index, "InvalidProposalError")
          /\ UNCHANGED proposals
     ELSE IF HasHole(proposals)
     THEN /\ proposals' = No(proposals, index, uid)
          /\ last' = Outcome("rejectProposal", uid, index, "TypeError")
     ELSE /\ proposals' = remarkLeader(No(proposals, index, uid))
          /\ last' = Outcome("rejectProposal", uid, index, "ok")
  /\ UNCHANGED <<finalized, earliest, latest>>

rejectProposal(uid, index) ==
  /\ responses' = responses \cup {uid}
  /\ IF ~IsLive(index)
     THEN /\ last' = Outcome("rejectProposal", uid, index, "InvalidProposalError")
          /\ UNCHANGED proposals
     ELSE IF HasHole(proposals)
     THEN /\ proposals' = No(proposals, index, uid)
          /\ last' = Outcome("rejectProposal", uid, index, "TypeError")
     ELSE /\ proposals' = remarkLeader(No(proposals, index, uid))
          /\ last' = Outcome("rejectProposal", uid, index, "ok")
  /\ UNCHANGED <<invitees, finalized, earliest, latest>>

\* a finalize without the isFinalized() check
finalize_overwrite(index) ==
  /\ IF ~IsLive(index)
     THEN /\ last' = Outcome("finalize", NoUser, index, "InvalidProposalError")
          /\ UNCHANGED finalized
     ELSE /\ finalized' = index
          /\ last' = Outcome("finalize", NoUser, index, "ok")
  /\ UNCHANGED <<proposals, invitees, responses, earliest, latest>>

\* a finalize that starts the final date with no attendee
finalize_reset(index) ==
  /\ IF ~IsLive(index)
     THEN /\ last' = Outcome("finalize", NoUser, index, "InvalidProposalError")
          /\ UNCHANGED <<finalized, proposals>>
     ELSE IF isFinalized
     THEN /\ last' = Outcome("finalize", NoUser, index, "FinalizedEventError")
          /\ UNCHANGED <<finalized, proposals>>
     ELSE /\ finalized' = index
          /\ proposals' = [proposals EXCEPT ![index + 1].accepted = {}]
          /\ last' = Outcome("finalize", NoUser, index, "ok")
  /\ UNCHANGED <<invitees, responses, earliest, latest>>

finalize(index) ==
  /\ IF ~IsLive(index)
     THEN /\ last' = Outcome("finalize", NoUser, index, "InvalidProposalError")
          /\ UNCHANGED finalized
     ELSE IF isFinalized
     THEN /\ last' = Outcome("finalize", NoUser, index, "FinalizedEventError")
          /\ UNCHANGED finalized
     ELSE /\ finalized' = index
          /\ last' = Outcome("finalize", NoUser, index, "ok")
  /\ UNCHANGED <<proposals, invitees, responses, earliest, latest>>

unfinalize ==
  /\ finalized' = null
  /\ last' = Outcome("unfinalize", NoUser, null, "ok")
  /\ UNCHANGED <<proposals, invitees, responses, earliest, latest>>

Next ==
  \/ \E ts \in Timestamps :
       (isFinalized \/ Len(proposals) < MaxProposals) /\ proposeDate(ts)
  \/ \E index \in Indices : unpropose(index)
  \/ \E uid \in Users : invite(uid)
  \/ \E uid \in Users : uninvite(uid)
  \/ \E uid \in Users, index \in Indices : acceptProposal(uid, index)
  \/ \E uid \in Users, index \in Indices : rejectProposal(uid, index)
  \/ \E index \in Indices : finalize(index)
  \/ unfinalize

Spec == Init /\ [][Next]_vars

\* the proposal lifecycle alone: no invitee ever responds
NextDates ==
  \/ \E ts \in DateTimestamps :
       (isFinalized \/ Len(proposals) < MaxDates) /\ proposeDate(ts)
  \/ \E index \in DateIndices : unpropose(index)
  \/ \E index \in DateIndices : finalize(index)
  \/ unfinalize

SpecDates == Init /\ [][NextDates]_vars

\* what listing, filtering and ordering observe: dates, finalization and the
\* roster; reostra is never invited here
Listed == {"frey", "fenris"}

NextListing ==
  \/ \E ts \in Timestamps :
       (isFinalized \/ Len(proposals) < MaxProposals) /\ proposeDate(ts)
  \/ \E index \in Indices : unpropose(index)
  \/ \E uid \in Listed : invite(uid)
  \/ \E uid \in Listed : uninvite(uid)
  \/ \E index \in Indices : finalize(index)
  \/ unfinalize

SpecListing == Init /\ [][NextListing]_vars

\* ---- the attachment of a finalized event ----

\* a classification by the final proposal alone
ResponseState_finalOnly(uid) ==
  IF Slot(proposals, finalized).accepted \cap {uid} # {} THEN "attending"
  ELSE "unresponded"

\* the icon of an invitee in the 'Who' field: :grey_question:,
\* :white_check_mark: or :red_circle:
ResponseState(uid) ==
  IF uid \notin responses THEN "unresponded"
  ELSE IF uid \in Slot(proposals, finalized).accepted THEN "attending"
  ELSE "notAttending"

\* the 'Who' field of asAttachment when finalized !== null: one entry for
\* each element of Array.from(this.invitees), none without invitees
Attendees ==
  [k \in 1..Len(invitees) |-> [uid |-> invitees[k], state |-> ResponseState(invitees[k])]]

\* ---- serialize / deserialize ----

\* the event as one value
ThisEvent ==
  [proposals |-> proposals, invitees |-> invitees, responses |-> responses,
   finalized |-> finalized, earliest |-> earliest, latest |-> latest]

\* Proposal.serialize; Array.prototype.map leaves the holes of the array
SerializeProposal(p) ==
  IF p.live THEN [hole |-> FALSE, ts |-> p.ts, accepted |-> p.accepted]
  ELSE [hole |-> TRUE, ts |-> 0, accepted |-> {}]

\* Proposal.deserialize: a new Proposal, which is not leading
DeserializeProposal(payload) ==
  IF payload.hole THEN Undefined
  ELSE [NewProposal(payload.ts) EXCEPT !.accepted = payload.accepted]

serialize(e) ==
  [invitees |-> e.invitees,
   responses |-> e.responses,
   finalized |-> e.finalized,
   proposals |-> [k \in 1..Len(e.proposals) |-> SerializeProposal(e.proposals[k])]]

\* a deserialize that drops the holes: payload.proposals.filter(Boolean)
deserialize_compact(payload) ==
  LET kept == SelectSeq(payload.proposals, LAMBDA q : ~q.hole)
  IN [proposals |-> [k \in 1..Len(kept) |-> DeserializeProposal(kept[k])],
      invitees |-> payload.invitees,
      responses |-> payload.responses,
      finalized |-> payload.finalized,
      earliest |-> null,
      latest |-> null]

\* Event.deserialize: new Event(id, name), whose earliest and latest are
\* null, then invitees, responses, proposals and finalized from the payload
deserialize(payload) ==
  [proposals |-> [k \in 1..Len(payload.proposals) |->
                    DeserializeProposal(payload.proposals[k])],
   invitees |-> payload.invitees,
   responses |-> payload.responses,
   finalized |-> payload.finalized,
   earliest |-> null,
   latest |-> null]

\* the event is stored and loaded again: it becomes deserialize(serialize(e))
reload ==
  LET e == deserialize(serialize(ThisEvent))
  IN /\ proposals' = e.proposals
     /\ invitees' = e.invitees
     /\ responses' = e.responses
     /\ finalized' = e.finalized
     /\ earliest' = e.earliest
     /\ latest' = e.latest
     /\ last' = Outcome("deserialize", NoUser, null, "ok")

\* the proposal lifecycle of an event that is stored and loaded in between
NextStore ==
  \/ \E ts \in DateTimestamps :
       (isFinalized \/ Len(proposals) < MaxDates) /\ proposeDate(ts)
  \/ \E index \in DateIndices : unpropose(index)
  \/ \E index \in DateIndices : finalize(index)
  \/ unfinalize
  \/ reload

SpecStore == Init /\ [][NextStore]_vars

\* ---- vocabulary of the properties ----

Accepted(index) == Slot(proposals, index).accepted
isLeading(index) == Slot(proposals, index).leading
isAttending(index, uid) == uid \in Accepted(index)

Max(S) == CHOOSE x \in S : \A y \in S : y <= x
Min(S) == CHOOSE x \in S : \A y \in S : x <= y

\* the largest yesCount() of a live proposal
MaxYesCount == Max({0} \cup {Cardinality(Accepted(i)) : i \in proposalKeys})

\* the timestamps of the live proposals
LiveDates == {DateOf(i) : i \in proposalKeys}

Voted == last.op \in {"acceptProposal", "rejectProposal"}
VoteSucceeded == Voted /\ last.result = "ok"

\* ---- C1 ----
\* C1: right after a successful acceptProposal/rejectProposal a live proposal
\* is leading iff its yesCount() is the maximum over the live proposals and
\* that maximum is strictly greater than 2.
C1_LeadingIffMaxAboveFloor ==
  VoteSucceeded =>
    \A i \in proposalKeys :
      isLeading(i) <=> (Cardinality(Accepted(i)) = MaxYesCount /\ MaxYesCount > 2)

\* ---- C2 ----
\* C2: right after a successful acceptProposal/rejectProposal, when no live
\* proposal has more than 2 acceptances no proposal is leading.
C2_NoLeaderAtOrBelowFloor ==
  (VoteSucceeded /\ MaxYesCount <= 2) => \A i \in proposalKeys : ~isLeading(i)

\* ---- C3 ----
\* C3: an acceptProposal/rejectProposal that fails with the invalid-proposal
\* error leaves invitees, responses and every accepted set as they were.
C3_FailedVoteChangesNothing ==
  [][(last'.op \in {"acceptProposal", "rejectProposal"}
        /\ last'.result = "InvalidProposalError")
      => (invitees' = invitees /\ responses' = responses /\ proposals' = proposals)]_vars

C5_ComparisonDatesAreMinMax ==
  ~isFinalized =>
    /\ earliestComparisonDate = (IF LiveDates = {} THEN null ELSE Min(LiveDates))
    /\ latestComparisonDate = (IF LiveDates = {} THEN null ELSE Max(LiveDates))

\* the proposal that held both caches was removed and two proposals with
\* different dates remain
C5_Witness ==
  /\ ~isFinalized
  /\ last.op = "unpropose"
  /\ ~IsLive(last.index) /\ last.index < Len(proposals)
  /\ Cardinality(LiveDates) = 2
  /\ earliest # null /\ latest # null /\ earliest # latest

\* ---- C6 ----
\* C6: finalized is null or the index of a live proposal, and an unpropose
\* of the finalized index clears finalized, so that isFinalized() is false
\* and finalProposal() fails with the not-finalized error.
C6_FinalizedIsLive ==
  /\ [](finalized = null \/ IsLive(finalized))
  /\ [][(last'.op = "unpropose" /\ last'.index = finalized)
         => (~isFinalized' /\ finalProposal' = "UnfinalizedEventError")]_vars

\* a proposal was removed from a finalized event whose final proposal stays
C6_Witness ==
  /\ last.op = "unpropose"
  /\ ~IsLive(last.index) /\ last.index < Len(proposals)
  /\ isFinalized
  /\ finalProposal = "ok"

\* ---- C7 ----
\* C7: a removed index stays invalid for ever, every other live proposal
\* keeps its index, and a successful proposeDate returns an index above
\* every index allocated before.
C7_IndicesStableNeverReused ==
  [][/\ Len(proposals') >= Len(proposals)
     /\ \A i \in 0..(Len(proposals) - 1) :
          /\ ~IsLive(i) => proposal(i)' = "InvalidProposalError"
          /\ (IsLive(i) /\ ~(last'.op = "unpropose" /\ last'.index = i))
               => (IsLive(i)' /\ Slot(proposals', i).ts = Slot(proposals, i).ts)
     /\ last'.op = "unpropose" => ~Slot(proposals', last'.index).live
     /\ (last'.op = "proposeDate" /\ last'.result = "ok")
          => /\ Slot(proposals', last'.index).live
             /\ \A i \in 0..(Len(proposals) - 1) : last'.index > i]_vars

\* a date was proposed after the most recently added proposal was removed
C7_Witness ==
  /\ last.op = "proposeDate" /\ last.result = "ok"
  /\ last.index >= 1
  /\ ~IsLive(last.index - 1)

\* ---- C8 ----
\* C8: on an event finalized at i, finalize(j) of another live proposal j
\* makes j the final proposal, attended by exactly the users who had
\* accepted j.
C8_RefinalizeChangesFinalDate ==
  [][(isFinalized /\ last'.op = "finalize" /\ IsLive(last'.index)
        /\ last'.index # finalized)
      => /\ finalized' = last'.index
         /\ Slot(proposals', finalized').accepted = Accepted(last'.index)]_vars

\* ---- C9 ----
\* C9: a successful acceptProposal(uid, i) adds uid to invitees, responses
\* and the accepted set of i; a successful rejectProposal(uid, i) adds uid
\* to responses, removes it from the accepted set of i and leaves invitees
\* alone; neither changes the accepted set of another proposal.
C9_VoteEffects ==
  [][(last'.op \in {"acceptProposal", "rejectProposal"} /\ last'.result = "ok")
      => LET uid == last'.uid
             index == last'.index
         IN /\ responses' = responses \cup {uid}
            /\ \A j \in 0..(Len(proposals) - 1) :
                 j # index => Slot(proposals', j).accepted = Accepted(j)
            /\ last'.op = "acceptProposal"
                 => /\ InviteeSet' = InviteeSet \cup {uid}
                    /\ Slot(proposals', index).accepted = Accepted(index) \cup {uid}
            /\ last'.op = "rejectProposal"
                 => /\ invitees' = invitees
                    /\ Slot(proposals', index).accepted = Accepted(index) \ {uid}]_vars

\* a user who was never invited has rejected a proposal that others accepted
C9_Witness ==
  /\ last.op = "rejectProposal" /\ last.result = "ok"
  /\ last.uid \in responses
  /\ last.uid \notin InviteeSet
  /\ Accepted(last.index) # {}

\* ---- C10 ----
\* C10: finalize(index) and unfinalize() change nothing but finalized, so
\* that after a successful finalize(j) the final proposal is attended by
\* exactly the users who had accepted j.
C10_FinalizeKeepsVotes ==
  [][(last'.op \in {"finalize", "unfinalize"})
      => /\ proposals' = proposals
         /\ invitees' = invitees
         /\ responses' = responses
         /\ earliest' = earliest /\ latest' = latest
         /\ (last'.op = "finalize" /\ last'.result = "ok")
              => /\ finalized' = last'.index
                 /\ \A uid \in Users :
                      (uid \in Slot(proposals', finalized').accepted)
                        <=> isAttending(last'.index, uid)
         /\ last'.op = "unfinalize" => finalized' = null]_vars

\* an event was finalized at a proposal some users accepted while another
\* user accepted only another proposal
C10_Witness ==
  /\ last.op = "finalize" /\ last.result = "ok"
  /\ Accepted(finalized) # {}
  /\ \E uid \in Users, j \in proposalKeys :
       j # finalized /\ isAttending(j, uid) /\ ~isAttending(finalized, uid)

\* ---- C11 ----
\* the position of an invitee in getInvitees(), 0 when absent
Pos(s, x) == IF InSeq(s, x) THEN CHOOSE k \in 1..Len(s) : s[k] = x ELSE 0

\* C11: invite(uid) and uninvite(uid) change nothing but invitees, in open
\* and finalized state alike; inviting an invitee and uninviting a stranger
\* change nothing at all; a new invitee comes last in getInvitees() and the
\* others keep their order.
C11_InviteTouchesOnlyInvitees ==
  [][(last'.op \in {"invite", "uninvite"})
      => LET uid == last'.uid
         IN /\ responses' = responses
            /\ finalized' = finalized
            /\ proposals' = proposals
            /\ \A a, b \in InviteeSet' \ {uid} :
                 Pos(getInvitees', a) < Pos(getInvitees', b)
                   <=> Pos(getInvitees, a) < Pos(getInvitees, b)
            /\ last'.op = "invite"
                 => /\ InviteeSet' = InviteeSet \cup {uid}
                    /\ uid \in InviteeSet => getInvitees' = getInvitees
                    /\ uid \notin InviteeSet => Pos(getInvitees', uid) = Len(getInvitees) + 1
            /\ last'.op = "uninvite"
                 => /\ InviteeSet' = InviteeSet \ {uid}
                    /\ Len(getInvitees') = Cardinality(InviteeSet')
                    /\ uid \notin InviteeSet => getInvitees' = getInvitees]_vars

\* on a finalized event a third invitee, who never responded, was invited
\* after two others
C11_Witness ==
  /\ last.op = "invite"
  /\ isFinalized
  /\ Len(getInvitees) = 3
  /\ getInvitees[3] = last.uid
  /\ last.uid \notin responses
  /\ \A i \in proposalKeys : ~isAttending(i, last.uid)

\* ---- C12 ----
\* C12: proposeDate on a finalized event fails with the finalized-event
\* error and leaves proposals, earliest, latest and finalized unchanged; on
\* an event that is not finalized, as after unfinalize() or after the
\* removal of the final proposal, it succeeds and appends the proposal.
C12_ProposeRefusedWhileFinalized ==
  /\ [](last.op = "unfinalize" => ~isFinalized)
  /\ [][/\ (last'.op = "unpropose" /\ last'.index = finalized) => ~isFinalized'
        /\ (last'.op = "proposeDate" /\ isFinalized)
             => /\ last'.result = "FinalizedEventError"
                /\ proposals' = proposals
                /\ earliest' = earliest /\ latest' = latest
                /\ finalized' = finalized
        /\ (last'.op = "proposeDate" /\ ~isFinalized)
             => /\ last'.result = "ok"
                /\ Len(proposals') = Len(proposals) + 1
                /\ Slot(proposals', last'.index).live]_vars

\* a date was refused on a finalized event
C12_Witness ==
  /\ last.op = "proposeDate"
  /\ last.result = "FinalizedEventError"
  /\ isFinalized
  /\ Len(proposals) >= 2

\* ---- C13 ----
\* the comparison dates as the claim words them: the finalized timestamp, or
\* the minimum / maximum live timestamp, or none
TrueEarliest ==
  IF isFinalized THEN Slot(proposals, finalized).ts
  ELSE IF LiveDates = {} THEN null ELSE Min(LiveDates)
TrueLatest ==
  IF isFinalized THEN Slot(proposals, finalized).ts
  ELSE IF LiveDates = {} THEN null ELSE Max(LiveDates)

\* C13: matches(filter) is true iff every clause present in the filter
\* passes: finalized, unfinalized, before (earliest comparison date not
\* after the bound, vacuous without a date), after (latest comparison date
\* not before the bound, vacuous without a date), invited.
C13_MatchesIsConjunction ==
  \A filter \in Filters :
    matches(filter) <=>
      /\ filter.finalized => isFinalized
      /\ filter.unfinalized => ~isFinalized
      /\ filter.before # null => (TrueEarliest = null \/ ~(TrueEarliest > filter.before))
      /\ filter.after # null => (TrueLatest = null \/ ~(TrueLatest < filter.after))
      /\ filter.invited # NoUser => filter.invited \in InviteeSet

\* an open event with two dates passes a before/after window around its
\* earliest date for an invitee, fails it for a user who is not invited, and
\* fails a before bound under its earliest date
C13_Witness ==
  /\ ~isFinalized
  /\ Cardinality(LiveDates) = 2
  /\ \E uid \in InviteeSet, other \in Users \ InviteeSet :
       /\ matches([finalized |-> FALSE, unfinalized |-> TRUE, before |-> Min(LiveDates),
                   after |-> Max(LiveDates), invited |-> uid])
       /\ ~matches([finalized |-> FALSE, unfinalized |-> TRUE, before |-> Min(LiveDates),
                    after |-> Max(LiveDates), invited |-> other])
       /\ ~matches([finalized |-> FALSE, unfinalized |-> FALSE,
                    before |-> Min(LiveDates) - 1, after |-> null, invited |-> NoUser])

\* ---- C14 ----
\* the earliestComparisonDate() of the events compared with
ComparisonDates == {null} \cup DateTimestamps

\* C14: compareTo orders events by earliestComparisonDate(): absent before
\* present, absent equal to absent, equal timestamps equal, the comparison
\* is antisymmetric (a.compareTo(b) = -b.compareTo(a)) and transitive.
C14_CompareToIsTotalPreorder ==
  LET a == earliestComparisonDate
  IN \A b, c \in ComparisonDates :
       /\ compareTo(b) \in {-1, 0, 1}
       /\ (a = null /\ b # null) => compareTo(b) = -1
       /\ (a # null /\ b = null) => compareTo(b) = 1
       /\ (a = null /\ b = null) => compareTo(b) = 0
       /\ a = b => compareTo(b) = 0
       /\ compareTo(b) = -CompareDates(b, a)
       /\ (compareTo(b) <= 0 /\ CompareDates(b, c) <= 0) => compareTo(c) <= 0
       /\ (CompareDates(b, a) <= 0 /\ compareTo(c) <= 0) => CompareDates(b, c) <= 0
       /\ (CompareDates(b, c) <= 0 /\ CompareDates(c, a) <= 0) => CompareDates(b, a) <= 0

\* a finalized event whose final date is not its earliest one sorts after
\* an event without date and before one with a later date
C14_Witness ==
  /\ isFinalized
  /\ earliest # null /\ DateOf(earliest) < DateOf(finalized)
  /\ compareTo(null) = 1
  /\ compareTo(DateOf(earliest)) = 1
  /\ \E b \in ComparisonDates : compareTo(b) = -1

\* ---- C15 ----
\* C15: deserialize(serialize(e)) has the invitees, responses and finalized
\* index of e, live proposals at exactly the indices of e, and the timestamp
\* and accepted set of each live proposal.
C15_RoundTripPreserves ==
  LET r == deserialize(serialize(ThisEvent))
  IN /\ {r.invitees[k] : k \in 1..Len(r.invitees)} = InviteeSet
     /\ r.responses = responses
     /\ r.finalized = finalized
     /\ Len(r.proposals) = Len(proposals)
     /\ \A i \in 0..(Len(proposals) - 1) :
          /\ Slot(r.proposals, i).live <=> IsLive(i)
          /\ IsLive(i) => /\ Slot(r.proposals, i).ts = DateOf(i)
                          /\ Slot(r.proposals, i).accepted = Accepted(i)

\* a finalized event with a removed proposal before its final proposal,
\* which has attendees
C15_Witness ==
  /\ isFinalized
  /\ \E i \in 0..(Len(proposals) - 1) : ~IsLive(i) /\ i < finalized
  /\ Accepted(finalized) # {}
  /\ InviteeSet # responses

\* ---- C16 ----
\* C16: acceptProposal and rejectProposal on a live index complete without
\* raising an error in every reachable state, also when another proposal
\* was removed.
C16_VoteOnLiveIndexNeverThrows ==
  (Voted /\ IsLive(last.index)) => last.result = "ok"

\* ---- C17 ----
\* C17: the event rebuilt by deserialize(serialize(e)) answers
\* earliestComparisonDate(), latestComparisonDate(), compareTo and matches
\* as e does, and a later proposeDate on it keeps the comparison dates of an
\* open event at the minimum and maximum live timestamp.
C17_RebuiltEventIsEquivalent ==
  /\ [][last'.op = "deserialize"
         => /\ earliestComparisonDate' = earliestComparisonDate
            /\ latestComparisonDate' = latestComparisonDate
            /\ \A b \in ComparisonDates : compareTo(b)' = compareTo(b)
            /\ \A filter \in Filters : matches(filter)' = matches(filter)]_vars
  /\ [](~isFinalized => /\ earliestComparisonDate = TrueEarliest
                        /\ latestComparisonDate = TrueLatest)

\* ---- C18 ----
\* C18: in every reachable state, also directly after unpropose, a live
\* proposal is leading iff its yesCount() is the maximum over the live
\* proposals and that maximum exceeds 2.
C18_LeaderCorrectInEveryState ==
  \A i \in proposalKeys :
    isLeading(i) <=> (Cardinality(Accepted(i)) = MaxYesCount /\ MaxYesCount > 2)

\* ---- C19 ----
\* C19: the summary of a finalized event lists every invitee once, in
\* insertion order, as unresponded iff not in responses, attending iff in
\* responses and in the final proposal's accepted set, notAttending
\* otherwise; an invitee who accepted only another proposal is notAttending.
C19_AttendeeClassification ==
  isFinalized =>
    /\ Len(Attendees) = Len(getInvitees)
    /\ \A k \in 1..Len(Attendees) :
         LET uid == Attendees[k].uid
             state == Attendees[k].state
         IN /\ uid = getInvitees[k]
            /\ state \in {"unresponded", "attending", "notAttending"}
            /\ state = "unresponded" <=> uid \notin responses
            /\ state = "attending" <=> (uid \in responses /\ isAttending(finalized, uid))
            /\ state = "notAttending" <=> (uid \in responses /\ ~isAttending(finalized, uid))
            /\ ((\E j \in proposalKeys : j # finalized /\ isAttending(j, uid))
                  /\ ~isAttending(finalized, uid))
                 => state = "notAttending"

\* the three invitees of a finalized event are in the three states, the one
\* who does not attend having accepted another proposal
C19_Witness ==
  /\ isFinalized
  /\ Len(Attendees) = 3
  /\ {Attendees[k].state : k \in 1..3} = {"unresponded", "attending", "notAttending"}
  /\ \E k \in 1..3, j \in proposalKeys :
       /\ Attendees[k].state = "notAttending"
       /\ j # finalized
       /\ isAttending(j, Attendees[k].uid)

\* ---- C20 ----
\* C20: unpropose(index) of an index that is not live raises no error and
\* changes nothing: live indices, earliest, latest, finalized, invitees and
\* responses stay, the next index to allocate stays, and proposal(index)
\* still fails with the invalid-proposal error.
C20_UnproposeOfDeadIndexIsNoOp ==
  [][(last'.op = "unpropose" /\ ~IsLive(last'.index))
      => /\ last'.result = "ok"
         /\ proposalKeys' = proposalKeys
         /\ proposals' = proposals
         /\ Len(proposals') = Len(proposals)
         /\ earliest' = earliest /\ latest' = latest
         /\ finalized' = finalized
         /\ invitees' = invitees /\ responses' = responses
         /\ ~Slot(proposals', last'.index).live]_vars

\* a never-allocated index was removed from a finalized event with a hole
C20_Witness ==
  /\ last.op = "unpropose"
  /\ last.index >= Len(proposals)
  /\ isFinalized
  /\ HasHole(proposals)
  /\ earliest # null

\* ---- C21 ----
\* C21: in every reachable state every user in the accepted set of a live
\* proposal is in responses, and no operation removes a member of responses:
\* a user who is in responses is never again classified as unresponded.
C21_AcceptedRespondedAndResponsesGrow ==
  /\ [](\A index \in proposalKeys : Accepted(index) \subseteq responses)
  /\ [][/\ responses \subseteq responses'
        /\ \A uid \in responses : ResponseState(uid)' # "unresponded"]_vars

\* a user who accepted a live proposal has just been uninvited: the vote and
\* the response are still recorded although the user is no invitee any more
C21_Witness ==
  /\ last.op = "uninvite"
  /\ last.uid \in responses
  /\ ~InSeq(invitees, last.uid)
  /\ \E index \in proposalKeys : last.uid \in Accepted(index)

====
